---- MODULE Spec2Model ----
(***************************************************************************)
(* The master orchestration engine of CallCenter-ReviewAgent               *)
(* (src/master_agent.py): the LangGraph workflow                           *)
(*   initialize -> select_next_file -> download_audio ->                   *)
(*   run_all_processing -> (select_next_file | finalize) -> END            *)
(* over one MasterAgentState, with the results document                    *)
(* (master_json_data) and its persisted copy.                              *)
(*                                                                         *)
(* External collaborators (the folder scraper, gdown, the file system and  *)
(* the analysis runners) are inputs drawn from small sets.                 *)
(***************************************************************************)
EXTENDS Integers, Sequences, FiniteSets, TLC

\* ------------------------------------------------------------------ bounds
\* Longest folder listing the scraper returns in the general specification.
MaxFiles == 2
\* Cap of the counter of finalize executions (a history variable).
MaxFinalizeRuns == 2

\* ------------------------------------------------------------- value sets
None == "None"

\* Identifiers of the files a general run can list.
Ids == {"a", "b"}
\* Identifiers of the three-file folder of the scenario specification.
ScenarioIds == <<"a", "b", "c">>

\* A link is abstracted to the URL form the id-extraction regexes look at
\* and the id that the URL carries.
NoLink == [form |-> "none", id |-> None]
FileLink(i) == [form |-> "/d/", id |-> i]
FolderLink == [form |-> "/folders/", id |-> "F"]
UcLink(i) == [form |-> "id=", id |-> i]
BadLink == [form |-> "other", id |-> "z"]

\* Local paths: the caller's pre-fetched file, a file pre-downloaded by the
\* folder scanner, and the temporary file written by the engine's own fetch.
UploadPath == "upload"
PrePath(i) == "pre_" \o i
TmpPath(i) == "tmp_" \o i

Stages == {"transcription", "noise_analysis", "evaluation", "summary", "recommendations"}
StageOrder == <<"transcription", "noise_analysis", "evaluation", "summary", "recommendations">>
\* Mutant: noise analysis also waits for a valid transcript.
TranscriptDependent_WithNoise ==
    {"noise_analysis", "evaluation", "summary", "recommendations"}
\* The stages behind the transcript check (lines 364, 397, 429).
TranscriptDependent == {"evaluation", "summary", "recommendations"}

\* What a runner can do when called: raise, return a result reporting
\* success, or return a result reporting an error without raising (the
\* shape {"status": "error", "error_message": ..., "output_files": {}},
\* which has no 'error' key).
RunnerOutcomes == {"raise", "success", "error_result"}

\* The behaviours of the five runners in one stage run.  The behaviour of a
\* runner whose body is never reached cannot be observed and is left at one
\* value: the evaluation runner (its call fails before the body runs), and
\* the summary and recommendations runners after a raising transcription.
RunnerBehaviours ==
    {b \in [Stages -> RunnerOutcomes] :
        /\ b["evaluation"] = "success"
        /\ b["transcription"] = "raise"
              => (b["summary"] = "success" /\ b["recommendations"] = "success")}

\* -------------------------------------------------------- stage entries
NoKey == "NoKey"
NoEntry == [status |-> "absent", error |-> NoKey]
SuccessResult == [status |-> "success", error |-> NoKey]
ErrorResult == [status |-> "error", error |-> NoKey]
FailedEntry(why) == [status |-> "failed", error |-> why]

EmptySteps == [s \in Stages |-> NoEntry]

\* ------------------------------------------------------------ variables
VARIABLES
    pc,                          \* node about to run, or "END"
    initial_google_drive_link,
    is_folder,
    listing,                     \* what the folder scraper returns
    fs,                          \* local paths that currently exist
    current_processing_link,
    current_file_identifier,
    current_local_audio_path,
    files_to_process_queue,
    processed_files_count,
    total_files_to_process,
    overall_status,
    error_message,
    files,                       \* master_json_data['files']
    metadata,                    \* master_json_data['metadata']
    saved,                       \* the document as last written to disk
    given_local_path,            \* history: the local path the caller supplied
    popped,                      \* history: WorkItems popped so far
    finalize_runs,               \* history: executions of finalize
    trail,                       \* history: per popped WorkItem, its fetch and audio
    last_run,                    \* history: the runner calls of the latest stage run
    enqueued,                    \* history: the queue as initialize built it
    init_outcome,                \* history: status and error as initialize left them
    store_fault,                 \* environment: state of the results document's file
    request,                     \* the POST /api/analyze request, if any
    response,                    \* the HTTP response, once given
    engine_invocations,          \* history: calls of master_graph.invoke
    suspended                    \* the MasterAgentState of a second, overlapping run

vars == <<pc, initial_google_drive_link, is_folder, listing, fs,
          current_processing_link, current_file_identifier,
          current_local_audio_path, files_to_process_queue,
          processed_files_count, total_files_to_process, overall_status,
          error_message, files, metadata, saved, given_local_path, popped,
          finalize_runs, trail, last_run, enqueued, init_outcome, store_fault,
          request, response, engine_invocations, suspended>>

\* What no node of the graph changes: the caller's inputs, the environment
\* outside the file system, and the HTTP exchange around the run.
outside == <<initial_google_drive_link, given_local_path, is_folder, listing,
             store_fault, request, response, engine_invocations, suspended>>

\* ------------------------------------------------------------- helpers
\* utils.extract_google_drive_file_id: the three patterns, else None.
extract_google_drive_file_id(url) ==
    IF url.form = "/d/" THEN url.id
    ELSE IF url.form = "/folders/" THEN url.id
    ELSE IF url.form = "id=" THEN url.id
    ELSE None

\* utils.get_audio_file_identifier (Identifier Resolver): derived from the
\* link when there is one, else from the local path.
get_audio_file_identifier(local_path, audio_url) ==
    IF audio_url # NoLink THEN audio_url.id
    ELSE IF local_path # None THEN "f_" \o local_path
    ELSE None

exists(path) == path # None /\ path \in fs

\* Whether master_processing_log.json can be written where the process runs.
CanWrite == store_fault # "unwritable"

NoMetadata ==
    [present |-> FALSE, total_files_processed |-> 0, total_files_attempted |-> 0,
     status |-> None, error |-> None]

\* utils.initialize_master_json: a fresh document.
initialize_master_json == [files |-> [i \in {} |-> None], metadata |-> NoMetadata]

\* utils.save_master_json: the whole document is written.
save_master_json(f, m) == [files |-> f, metadata |-> m]

\* Mutant: the nodes' changes stay in memory until finalize saves.
WriteThrough_Buffered(f, m, on_disk) == on_disk

\* save_master_json(state.master_json_data) as select_next_file,
\* download_audio and run_all_processing call it after changing a record
\* (lines 212, 226, 237, 270, 278, 299, 306, 458): the document on disk
\* becomes the document in memory.
WriteThrough(f, m, on_disk) == save_master_json(f, m)

\* utils.add_agent_output_to_master_json, on the processing_steps of the
\* file's record: the result is stored under the stage, replacing an
\* earlier entry.
add_agent_output_to_master_json(steps, stage, result) ==
    [steps EXCEPT ![stage] = result]

\* --------------------------------------------------------- the listing
\* One entry of the scraper's listing: identifier (possibly missing), link,
\* and the path of a copy the scanner already downloaded (possibly none).
ListingEntry(i, withLocal) ==
    [identifier |-> i, link |-> FileLink(i),
     local_path |-> IF withLocal THEN PrePath(i) ELSE None]
NamelessEntry == [identifier |-> None, link |-> FileLink("n"), local_path |-> None]

\* Only "a" is listed with a pre-downloaded copy (which may exist or not).
Entries ==
    {ListingEntry(i, FALSE) : i \in Ids} \cup {ListingEntry("a", TRUE), NamelessEntry}

SeqsUpTo(S, n) == UNION {[1..k -> S] : k \in 0..n}

\* Identifiers are opaque, so a listing is taken up to renaming: the first
\* identifier it names is "a", and "b" appears only after "a".
Canonical(fl) ==
    \A k \in 1..Len(fl) :
        fl[k].identifier = "b" => \E j \in 1..(k - 1) : fl[j].identifier = "a"

Listings == {fl \in SeqsUpTo(Entries, MaxFiles) : Canonical(fl)}

\* utils.scrape_google_drive_folder: the listing of the folder, in the
\* order the folder gives it.
scrape_google_drive_folder(folder_url) == listing

\* master_agent.get_files_in_folder: every scraped file is kept, audio or not.
get_files_in_folder(folder_id) == scrape_google_drive_folder(folder_id)

\* The queue item initialize builds for one listed file (lines 130-142).
QueueItemOfEntry(f_item) ==
    [link |-> f_item.link, identifier |-> f_item.identifier,
     local_path |-> IF exists(f_item.local_path) THEN f_item.local_path ELSE None]

\* Mutant: the listed files are queued in reverse order.
RECURSIVE FolderQueue_Reversed(_)
FolderQueue_Reversed(fl) ==
    IF fl = << >> THEN << >>
    ELSE IF Head(fl).identifier # None
         THEN FolderQueue_Reversed(Tail(fl)) \o <<QueueItemOfEntry(Head(fl))>>
         ELSE FolderQueue_Reversed(Tail(fl))

\* The loop of lines 127-144: files without identifier are left out.
RECURSIVE FolderQueue(_)
FolderQueue(fl) ==
    IF fl = << >> THEN << >>
    ELSE IF Head(fl).identifier # None
         THEN <<QueueItemOfEntry(Head(fl))>> \o FolderQueue(Tail(fl))
         ELSE FolderQueue(Tail(fl))

\* Mutant: the single item is queued with the caller's path, fetched or not.
SingleQueue_CarryPath(link, path) ==
    IF link # NoLink \/ exists(path)
    THEN <<[link |-> link, identifier |-> get_audio_file_identifier(path, link),
            local_path |-> UploadPath]>>
    ELSE << >>

\* The single-file branch of initialize (lines 146-167): the queue it builds,
\* empty when no identifier could be obtained.
SingleQueue(link, path) ==
    IF exists(path)
    THEN LET identifier == get_audio_file_identifier(path, link) IN
         IF identifier # None
         THEN <<[link |-> link, identifier |-> identifier, local_path |-> path]>>
         ELSE << >>
    ELSE IF link # NoLink
    THEN LET identifier == get_audio_file_identifier(None, link) IN
         IF identifier # None
         THEN <<[link |-> link, identifier |-> identifier, local_path |-> None]>>
         ELSE << >>
    ELSE << >>

\* Status set at lines 174-180 from the queue length.
StatusAfterEnumeration(n) == IF n > 0 THEN "initialized" ELSE "no_files_found"

\* ----------------------------------------------------------- the edges
\* Conditional edge after select_next_file (lines 518-521).
RouteAfterSelect(identifier) ==
    IF identifier # None THEN "download_audio" ELSE "finalize"

\* Mutant: the run goes to finalize after the first file.
RouteAfterRunAll_Finalize(queue) == "finalize"

\* Conditional edge after run_all_processing (lines 526-529).
RouteAfterRunAll(queue) ==
    IF queue # << >> THEN "select_next_file" ELSE "finalize"

\* Mutant: finalize is wired back into the loop instead of to END.
RouteAfterFinalize_Loop == "select_next_file"

\* Edge finalize -> END (line 535).
RouteAfterFinalize == "END"

\* ------------------------------------------------------------- Init
NoTrail == << >>
NoOutcome == [status |-> "pending", error |-> None]
NoRun == [identifier |-> None, outcome |-> [s \in Stages |-> "not_called"]]

\* The engine run directly (python master_agent.py): no HTTP exchange, and
\* a results document that can be written.
NoRequest ==
    [present |-> FALSE, is_json |-> FALSE, data |-> "none", driveLink |-> NoLink,
     fileType |-> "mp3"]
NoResponse ==
    [code |-> 0, status |-> None, message |-> None, details |-> FALSE,
     audio_files |-> << >>]

\* The state of one run of the graph: the fields of its MasterAgentState
\* and its history.
RunState(node, link, path) ==
    [pc |-> node, initial_google_drive_link |-> link, is_folder |-> FALSE,
     current_processing_link |-> NoLink, current_file_identifier |-> None,
     current_local_audio_path |-> path, files_to_process_queue |-> << >>,
     processed_files_count |-> 0, total_files_to_process |-> 0,
     overall_status |-> "pending", error_message |-> None,
     files |-> initialize_master_json.files,
     metadata |-> initialize_master_json.metadata,
     given_local_path |-> path, popped |-> 0, finalize_runs |-> 0,
     trail |-> NoTrail, last_run |-> NoRun, enqueued |-> << >>,
     init_outcome |-> NoOutcome]

\* No second run overlaps this one.
NoSecondRun == RunState("absent", NoLink, None)

DirectRun ==
    /\ store_fault = "none"
    /\ request = NoRequest
    /\ response = NoResponse
    /\ engine_invocations = 1
    /\ suspended = NoSecondRun

InitCommon ==
    /\ current_processing_link = NoLink
    /\ current_file_identifier = None
    /\ files_to_process_queue = << >>
    /\ processed_files_count = 0
    /\ total_files_to_process = 0
    /\ overall_status = "pending"
    /\ error_message = None
    /\ files = initialize_master_json.files
    /\ metadata = initialize_master_json.metadata
    /\ saved = initialize_master_json
    /\ popped = 0
    /\ finalize_runs = 0
    /\ trail = NoTrail
    /\ last_run = NoRun
    /\ enqueued = << >>
    /\ init_outcome = NoOutcome

PathsOfListing(fl) ==
    {fl[k].local_path : k \in 1..Len(fl)} \ {None}

\* MasterAgentState(initial_google_drive_link=..., current_local_audio_path=...,
\* is_folder=..., user_prompt=...) and the environment it runs in.
Init ==
    /\ pc = "initialize"
    /\ InitCommon
    /\ is_folder \in BOOLEAN
    /\ IF is_folder
       THEN /\ initial_google_drive_link \in {NoLink, FolderLink, BadLink}
            /\ listing \in (IF initial_google_drive_link = FolderLink
                            THEN Listings ELSE {<< >>})
            \* the local path is read in folder mode only by the first check
            /\ current_local_audio_path \in
                  (IF initial_google_drive_link = NoLink
                   THEN {None, UploadPath} ELSE {None})
       ELSE /\ initial_google_drive_link \in {NoLink, FileLink("a"), UcLink("b"), BadLink}
            /\ listing = << >>
            /\ current_local_audio_path \in {None, UploadPath}
    /\ given_local_path = current_local_audio_path
    /\ DirectRun
    /\ fs \in SUBSET (PathsOfListing(listing)
                       \cup (IF current_local_audio_path = None THEN {} ELSE {UploadPath}))

\* Scenario D's run: a folder whose listing is three files with distinct
\* identifiers, none pre-downloaded.
ScenarioListing ==
    [k \in 1..Len(ScenarioIds) |-> ListingEntry(ScenarioIds[k], FALSE)]

InitScenarioD ==
    /\ pc = "initialize"
    /\ InitCommon
    /\ is_folder = TRUE
    /\ initial_google_drive_link = FolderLink
    /\ listing = ScenarioListing
    /\ current_local_audio_path = None
    /\ given_local_path = None
    /\ DirectRun
    /\ fs = {}

\* -------------------------------------------------------- initialize
\* Mutant: the failing return leaves a WorkItem for the link in the queue.
InitFailed_Enqueues(msg) ==
    /\ error_message' = msg
    /\ overall_status' = "failed_initialization"
    /\ files_to_process_queue' =
          <<[link |-> initial_google_drive_link, identifier |-> "a",
             local_path |-> None]>>
    /\ total_files_to_process' = 0
    /\ saved' = saved
    /\ pc' = "select_next_file"

\* The returns of lines 97-101, 107-111, 115-119 and 168-172: the queue and
\* the counter stay as lines 93-95 reset them, and nothing is saved.
InitFailed(msg) ==
    /\ error_message' = msg
    /\ overall_status' = "failed_initialization"
    /\ files_to_process_queue' = << >>
    /\ total_files_to_process' = 0
    /\ saved' = saved
    /\ pc' = "select_next_file"

InitEnumerated(queue, msg) ==
    /\ files_to_process_queue' = queue
    /\ total_files_to_process' = Len(queue)
    /\ overall_status' = StatusAfterEnumeration(Len(queue))
    /\ error_message' = msg
    /\ IF CanWrite
       THEN /\ saved' = save_master_json(initialize_master_json.files,
                                         initialize_master_json.metadata)
            /\ pc' = "select_next_file"
       ELSE \* the save at line 181 raises out of the node
            /\ saved' = saved
            /\ pc' = "RAISED"

Initialize ==
    /\ pc = "initialize"
    /\ files' = initialize_master_json.files
    /\ metadata' = initialize_master_json.metadata
    /\ processed_files_count' = 0
    /\ IF initial_google_drive_link = NoLink /\ current_local_audio_path = None
       THEN InitFailed("No Google Drive link or local file path provided.")
       ELSE IF is_folder
       THEN IF initial_google_drive_link = NoLink
            THEN InitFailed("Folder processing requires a Google Drive link.")
            ELSE LET folder_id == extract_google_drive_file_id(initial_google_drive_link) IN
                 IF folder_id = None
                 THEN InitFailed("Could not extract folder ID")
                 ELSE LET files_in_folder == get_files_in_folder(folder_id) IN
                      IF files_in_folder = << >>
                      THEN InitEnumerated(<< >>, "No audio files found in folder")
                      ELSE InitEnumerated(FolderQueue(files_in_folder), error_message)
       ELSE LET queue == SingleQueue(initial_google_drive_link, current_local_audio_path) IN
            IF queue # << >>
            THEN InitEnumerated(queue, error_message)
            ELSE InitFailed("Could not get identifier for single file.")
    /\ enqueued' = files_to_process_queue'
    /\ init_outcome' = [status |-> overall_status', error |-> error_message']
    /\ UNCHANGED <<outside, fs,
                   current_processing_link, current_file_identifier,
                   current_local_audio_path, popped, finalize_runs, trail,
                   last_run>>

\* -------------------------------------------------- select_next_file
NewFileRecord(identifier, link) ==
    [identifier |-> identifier, link |-> link, status |-> "selected",
     local_path |-> None, error |-> None, completed_at |-> FALSE,
     processing_steps |-> EmptySteps]

\* History of one popped WorkItem: how its fetch went, whether the stage
\* run found its audio, and the statuses its record was given in turn.
NewTrailEntry(identifier, created) ==
    [identifier |-> identifier, fetch |-> "none", fetch_calls |-> 0,
     audio |-> "unknown",
     statuses |-> IF created THEN <<"selected">> ELSE << >>]

\* Mutant: the error of the previous node is kept.
ErrorAfterSelect_Kept(err) == err

\* state.error_message = None (line 187).
ErrorAfterSelect(err) == None

\* Mutant: a record is written at every selection.
NotYetRecorded_Always(identifier, f) == TRUE

\* The check of line 204.
NotYetRecorded(identifier, f) == identifier \notin DOMAIN f

\* Mutant: the last WorkItem of the queue is taken.
QueueHead_Last(queue) == queue[Len(queue)]

\* files_to_process_queue.pop(0) (line 195): the item taken.
QueueHead(queue) == Head(queue)

SelectNextFile ==
    /\ pc = "select_next_file"
    /\ error_message' = ErrorAfterSelect(error_message)
    /\ IF files_to_process_queue = << >>
       THEN /\ current_local_audio_path' = None
            /\ current_processing_link' = NoLink
            /\ current_file_identifier' = None
            /\ UNCHANGED <<files_to_process_queue, files, saved, popped, trail>>
       ELSE LET next_file_info == QueueHead(files_to_process_queue) IN
            /\ files_to_process_queue' = Tail(files_to_process_queue)
            /\ current_processing_link' = next_file_info.link
            /\ current_file_identifier' = next_file_info.identifier
            /\ current_local_audio_path' = next_file_info.local_path
            /\ popped' = popped + 1
            /\ trail' = Append(trail,
                               NewTrailEntry(next_file_info.identifier,
                                             NotYetRecorded(next_file_info.identifier,
                                                            files)))
            /\ IF NotYetRecorded(next_file_info.identifier, files)
               THEN /\ files' = (next_file_info.identifier :>
                                   NewFileRecord(next_file_info.identifier,
                                                 next_file_info.link)) @@ files
                    /\ saved' = WriteThrough(files', metadata, saved)
               ELSE UNCHANGED <<files, saved>>
    /\ pc' = RouteAfterSelect(current_file_identifier')
    /\ UNCHANGED <<outside, fs,
                   processed_files_count, total_files_to_process, overall_status,
                   metadata, finalize_runs, last_run, enqueued, init_outcome>>

\* ------------------------------------------------------ download_audio
\* Mutant: an error already on the record is kept.
MarkRecord_KeepError(f, identifier, status, path, err) ==
    IF identifier \in DOMAIN f
    THEN [f EXCEPT ![identifier].status = status,
                   ![identifier].local_path = IF path # None THEN path ELSE @,
                   ![identifier].error = IF @ = None /\ err # None THEN err ELSE @]
    ELSE f

\* Mutant: a record marked processing_failed is also given completed_at.
MarkRecord_Completes(f, identifier, status, path, err) ==
    IF identifier \in DOMAIN f
    THEN [f EXCEPT ![identifier].status = status,
                   ![identifier].local_path = IF path # None THEN path ELSE @,
                   ![identifier].error = IF err # None THEN err ELSE @,
                   ![identifier].completed_at =
                       IF status = "processing_failed" THEN TRUE ELSE @]
    ELSE f

\* Mutant: the status is written to every record of the document.
MarkRecord_AllRecords(f, identifier, status, path, err) ==
    IF identifier \in DOMAIN f
    THEN [i \in DOMAIN f |-> [f[i] EXCEPT !.status = status]]
    ELSE f

\* The record update of the download branches (lines 225-230, 235-238,
\* 253-259, 266-271) and of the stage run's early return (lines 296-299),
\* made when the record exists.
MarkRecord(f, identifier, status, path, err) ==
    IF identifier \in DOMAIN f
    THEN [f EXCEPT ![identifier].status = status,
                   ![identifier].local_path = IF path # None THEN path ELSE @,
                   ![identifier].error = IF err # None THEN err ELSE @]
    ELSE f

SetTrail(field, value, given) ==
    IF trail = << >> THEN trail
    ELSE [trail EXCEPT ![Len(trail)] =
             [[@ EXCEPT ![field] = value] EXCEPT !.statuses = @ \o given]]

\* The download node's note in the history: how the fetch went, and how
\* many times gdown.download was called for it.
SetFetch(value, calls, given) ==
    IF trail = << >> THEN trail
    ELSE [trail EXCEPT ![Len(trail)] =
             [[[@ EXCEPT !.fetch = value] EXCEPT !.fetch_calls = @ + calls]
                 EXCEPT !.statuses = @ \o given]]

\* Calls of gdown.download in the try block: none when the ValueError of
\* lines 242-243 comes first, else the one of line 259.
GdownCalls(link) == IF extract_google_drive_file_id(link) = None THEN 0 ELSE 1

\* Mutant: a local copy is never used, the file is always fetched.
UsePreDownloaded_Never(path) == FALSE

\* The check of line 220: the WorkItem's local path is set and exists.
UsePreDownloaded(path) == exists(path)

\* gdown.download inside the try block (lines 239-262): the outcomes the
\* fetch can have for a link.  A link without an extractable id raises
\* ValueError before gdown is called.
FetchOutcomes(link) ==
    IF extract_google_drive_file_id(link) = None THEN {"failed"} ELSE {"ok", "failed"}

DownloadAudio ==
    /\ pc = "download_audio"
    /\ IF UsePreDownloaded(current_local_audio_path)
       THEN /\ files' = MarkRecord(files, current_file_identifier, "downloaded",
                                   current_local_audio_path, None)
            /\ saved' = WriteThrough(files', metadata, saved)
            /\ trail' = SetFetch("skipped", 0, <<"downloaded">>)
            /\ UNCHANGED <<error_message, current_local_audio_path, fs>>
       ELSE IF current_processing_link = NoLink
       THEN /\ error_message' = "No link provided for download."
            /\ files' = MarkRecord(files, current_file_identifier, "download_failed",
                                   None, error_message')
            /\ saved' = WriteThrough(files', metadata, saved)
            /\ trail' = SetFetch("no_link", 0, <<"download_failed">>)
            /\ UNCHANGED <<current_local_audio_path, fs>>
       ELSE \E outcome \in FetchOutcomes(current_processing_link) :
            IF outcome = "ok"
            THEN /\ current_local_audio_path' = TmpPath(current_file_identifier)
                 /\ fs' = fs \cup {current_local_audio_path'}
                 /\ files' = MarkRecord(files, current_file_identifier, "downloaded",
                                        current_local_audio_path', None)
                 /\ saved' = WriteThrough(files', metadata, saved)
                 /\ trail' = SetFetch("ok", GdownCalls(current_processing_link), <<"downloaded">>)
                 /\ UNCHANGED error_message
            ELSE /\ error_message' = "Error downloading audio"
                 /\ files' = MarkRecord(files, current_file_identifier, "download_failed",
                                        None, error_message')
                 /\ saved' = WriteThrough(files', metadata, saved)
                 /\ trail' = SetFetch("failed", GdownCalls(current_processing_link),
                                      <<"download_failed">>)
                 /\ UNCHANGED <<current_local_audio_path, fs>>
    /\ pc' = "run_all_processing"
    /\ UNCHANGED <<outside,
                   current_processing_link, current_file_identifier,
                   files_to_process_queue, processed_files_count,
                   total_files_to_process, overall_status, metadata, popped,
                   finalize_runs, last_run, enqueued, init_outcome>>

\* -------------------------------------------------- run_all_processing
\* Mutant: the except branches record nothing.
CaptureStage_DropRaise(outcome) ==
    IF outcome = "raise" THEN NoEntry
    ELSE IF outcome = "success" THEN SuccessResult
    ELSE ErrorResult

\* The except branches (lines 322-330, 346-354, 379-387, 411-419, 444-452):
\* what is stored for a stage given what its runner did.
CaptureStage(outcome) ==
    IF outcome = "raise" THEN FailedEntry("exception")
    ELSE IF outcome = "success" THEN SuccessResult
    ELSE ErrorResult

\* The check `not transcript_data or 'error' in transcript_data`
\* (lines 364, 397, 429), negated: the transcript is taken as valid.
TranscriptValid(transcript_data) ==
    ~(transcript_data = NoEntry \/ transcript_data.error # NoKey)

\* The call at lines 367-371 passes three positional arguments
\* (transcript_data, identifier, user_prompt) to run_evaluation_analysis,
\* which is declared with two parameters (evaluation_agent_refactored.py
\* line 49): the call raises TypeError whatever the runner would do.
run_evaluation_analysis(behaviour) == "raise"

\* The calls at lines 400-403 and 432-436 match the runners' parameters.
run_summary_generation(behaviour) == behaviour
run_recommendation_generation(behaviour) == behaviour

\* The runner call of a stage, as the node makes it.
CallRunner(stage, behaviour) ==
    IF stage = "evaluation" THEN run_evaluation_analysis(behaviour)
    ELSE IF stage = "summary" THEN run_summary_generation(behaviour)
    ELSE IF stage = "recommendations" THEN run_recommendation_generation(behaviour)
    ELSE behaviour

\* Mutant: the transcript check is missing.
GatedStage_Unchecked(transcript_data, outcome) == CaptureStage(outcome)

\* A transcript-dependent stage: the ValueError of the failed check and an
\* exception of the runner end in the same except branch.
GatedStage(transcript_data, outcome) ==
    IF TranscriptValid(transcript_data)
    THEN CaptureStage(outcome)
    ELSE FailedEntry("no_transcript")

\* Mutant: the noise-analysis step has no try / except.
ExceptionCaught_NoiseBare(stage) == stage # "noise_analysis"

\* Each of the five steps is wrapped in try / except Exception
\* (lines 310/322, 334/346, 358/379, 391/411, 423/444).
ExceptionCaught(stage) == TRUE

\* Mutant: recommendations also require an evaluation that did not fail.
StageEntry_RecommendationsNeedEvaluation(stage, steps, b) ==
    IF stage = "recommendations" /\ steps["evaluation"].status = "failed"
    THEN FailedEntry("no_evaluation")
    ELSE IF stage \in TranscriptDependent
    THEN GatedStage(steps["transcription"], CallRunner(stage, b[stage]))
    ELSE CaptureStage(CallRunner(stage, b[stage]))

\* What the step of one stage stores, given the stage map so far.
StageEntry(stage, steps, b) ==
    IF stage \in TranscriptDependent
    THEN GatedStage(steps["transcription"], CallRunner(stage, b[stage]))
    ELSE CaptureStage(CallRunner(stage, b[stage]))

\* Whether the runner of a stage is called, given the stage map so far.
RunnerCalled(stage, steps) ==
    stage \notin TranscriptDependent \/ TranscriptValid(steps["transcription"])

\* The stage map after the first n steps of the fixed order, for the
\* runners' behaviours b.
RECURSIVE StepsAfter(_, _, _)
StepsAfter(steps0, b, n) ==
    IF n = 0 THEN steps0
    ELSE LET prev == StepsAfter(steps0, b, n - 1)
             stage == StageOrder[n]
         IN add_agent_output_to_master_json(prev, stage, StageEntry(stage, prev, b))

\* What each runner call did in the first n steps: "not_called" for a
\* transcript-dependent stage whose transcript check failed, and for the
\* steps not reached.
CallOutcomes(steps0, b, n) ==
    [s \in Stages |->
        LET k == CHOOSE i \in 1..Len(StageOrder) : StageOrder[i] = s IN
        IF k > n THEN "not_called"
        ELSE IF RunnerCalled(s, StepsAfter(steps0, b, k - 1))
        THEN CallRunner(s, b[s])
        ELSE "not_called"]

\* The first step whose exception is not caught, 0 when there is none.
FirstEscape(steps0, b) ==
    LET escaping == {k \in 1..Len(StageOrder) :
                        /\ RunnerCalled(StageOrder[k], StepsAfter(steps0, b, k - 1))
                        /\ CallRunner(StageOrder[k], b[StageOrder[k]]) = "raise"
                        /\ ~ExceptionCaught(StageOrder[k])}
    IN IF escaping = {} THEN 0
       ELSE CHOOSE k \in escaping : \A j \in escaping : k <= j

\* Mutant: the stage run never takes the early return.
AudioAvailable_Always(path) == TRUE

\* The check of lines 294: a local path is set and the file is there.
AudioAvailable(path) == exists(path)

\* Mutant: the counter is not advanced.
IncrementProcessed_Skip(n) == n

\* Mutant: the counter is advanced twice.
IncrementProcessed_Twice(n) == n + 2

\* Lines 460-461.
IncrementProcessed(n) == n + 1

RunAllProcessing ==
    /\ pc = "run_all_processing"
    /\ IF ~AudioAvailable(current_local_audio_path)
       THEN /\ error_message' = "No local audio file available for processing."
            /\ files' = MarkRecord(files, current_file_identifier, "processing_failed",
                                   None, error_message')
            /\ saved' = WriteThrough(files', metadata, saved)
            /\ trail' = SetTrail("audio", "missing", <<"processing_failed">>)
            /\ UNCHANGED <<processed_files_count, last_run>>
            /\ pc' = RouteAfterRunAll(files_to_process_queue)
       ELSE \E b \in RunnerBehaviours :
            LET id == current_file_identifier
                steps0 == files[id].processing_steps
                escape == FirstEscape(steps0, b)
            IN
            IF escape = 0
            THEN /\ files' = [files EXCEPT
                                ![id].status = "processed",
                                ![id].completed_at = TRUE,
                                ![id].processing_steps =
                                    StepsAfter(steps0, b, Len(StageOrder))]
                 /\ saved' = WriteThrough(files', metadata, saved)
                 /\ processed_files_count' = IncrementProcessed(processed_files_count)
                 /\ trail' = SetTrail("audio", "present", <<"processing", "processed">>)
                 /\ last_run' = [identifier |-> id,
                                 outcome |-> CallOutcomes(steps0, b, Len(StageOrder))]
                 /\ pc' = RouteAfterRunAll(files_to_process_queue)
                 /\ UNCHANGED error_message
            ELSE \* the exception leaves the node and the graph's invoke
                 /\ files' = [files EXCEPT
                                ![id].status = "processing",
                                ![id].processing_steps =
                                    StepsAfter(steps0, b, escape - 1)]
                 /\ saved' = WriteThrough(files', metadata, saved)
                 /\ trail' = SetTrail("audio", "present", <<"processing">>)
                 /\ last_run' = [identifier |-> id,
                                 outcome |-> CallOutcomes(steps0, b, escape)]
                 /\ pc' = "RAISED"
                 /\ UNCHANGED <<error_message, processed_files_count>>
    /\ UNCHANGED <<outside, fs,
                   current_processing_link, current_file_identifier,
                   current_local_audio_path, files_to_process_queue,
                   total_files_to_process, overall_status, metadata, popped,
                   finalize_runs, enqueued, init_outcome>>

\* ------------------------------------------------------------ finalize
\* Mutant: the comparison of the counts is reversed.
FinalStatus_Swapped(processed, total, err) ==
    IF processed = 0
    THEN IF err # None THEN "failed" ELSE "no_files_processed"
    ELSE IF processed < total THEN "completed"
    ELSE "partially_completed"

\* Mutant: the error message is not consulted.
FinalStatus_IgnoreError(processed, total, err) ==
    IF processed = 0 THEN "no_files_processed"
    ELSE IF processed < total THEN "partially_completed"
    ELSE "completed"

\* Lines 479-493.
FinalStatus(processed, total, err) ==
    IF processed = 0
    THEN IF err # None THEN "failed" ELSE "no_files_processed"
    ELSE IF processed < total THEN "partially_completed"
    ELSE "completed"

\* Mutant: the error message is written whatever the status is.
FinalMetadata_AlwaysError(processed, total, status, err) ==
    [present |-> TRUE,
     total_files_processed |-> processed,
     total_files_attempted |-> total,
     status |-> status,
     error |-> err]

\* The metadata of lines 472-493: the counts, the status, and the error
\* key only in the failed branch (None stands for the absent key).
FinalMetadata(processed, total, status, err) ==
    [present |-> TRUE,
     total_files_processed |-> processed,
     total_files_attempted |-> total,
     status |-> status,
     error |-> IF status = "failed" THEN err ELSE None]

FinalizeProcessing ==
    /\ pc = "finalize"
    /\ overall_status' =
          FinalStatus(processed_files_count, total_files_to_process, error_message)
    /\ metadata' =
          FinalMetadata(processed_files_count, total_files_to_process,
                        overall_status', error_message)
    /\ finalize_runs' =
          IF finalize_runs < MaxFinalizeRuns THEN finalize_runs + 1 ELSE finalize_runs
    /\ IF CanWrite
       THEN /\ saved' = save_master_json(files, metadata')
            /\ pc' = RouteAfterFinalize
       ELSE \* the save at line 496 raises out of the node
            /\ saved' = saved
            /\ pc' = "RAISED"
    /\ UNCHANGED <<outside, fs,
                   current_processing_link, current_file_identifier,
                   current_local_audio_path, files_to_process_queue,
                   processed_files_count, total_files_to_process, error_message,
                   files, popped, trail, last_run, enqueued, init_outcome>>

\* ------------------------------------------------------ the environment
\* The local audio file of the WorkItem in flight is removed by something
\* else between two nodes (a temporary file, cleaned up).
FileVanishes ==
    /\ pc \in {"initialize", "download_audio", "run_all_processing"}
    /\ exists(current_local_audio_path)
    /\ fs' = fs \ {current_local_audio_path}
    /\ UNCHANGED <<pc, outside, enqueued, init_outcome,
                   current_processing_link, current_file_identifier,
                   current_local_audio_path, files_to_process_queue,
                   processed_files_count, total_files_to_process, overall_status,
                   error_message, files, metadata, saved, popped, finalize_runs,
                   trail, last_run>>

\* ----------------------------------------------------- POST /api/analyze
\* The requests the route is given: a body that is not JSON, a JSON null,
\* or an object with driveLink (possibly missing) and fileType (possibly
\* null).
Requests ==
    {[present |-> TRUE, is_json |-> FALSE, data |-> "none", driveLink |-> NoLink,
      fileType |-> "mp3"],
     [present |-> TRUE, is_json |-> TRUE, data |-> "null", driveLink |-> NoLink,
      fileType |-> "mp3"]}
    \cup
    [present : {TRUE}, is_json : {TRUE}, data : {"object"},
     driveLink : {NoLink, BadLink, FileLink("a"), UcLink("b")},
     fileType : {"mp3", "folder", "null"}]

StoreFaults == {"none", "unwritable"}

ApiTmpPath == "api_tmp"

\* jsonify({'status': 'error', 'message': ...}), code: the error responses
\* without details.
ErrorResponse(code, message) ==
    [code |-> code, status |-> "error", message |-> message, details |-> FALSE,
     audio_files |-> << >>]

\* The outer except branch (lines 209-228).
UnexpectedErrorResponse ==
    [code |-> 500, status |-> "error",
     message |-> "An unexpected error occurred on the server", details |-> TRUE,
     audio_files |-> << >>]

\* Mutant: a failed graph run is answered as a success.
GraphErrorResponse_Success ==
    [code |-> 200, status |-> "success", message |-> "Audio processed successfully.",
     details |-> FALSE, audio_files |-> << >>]

\* The except branch around master_graph.invoke (lines 166-173).
GraphErrorResponse ==
    [code |-> 500, status |-> "error",
     message |-> "Error during backend processing graph execution.",
     details |-> TRUE, audio_files |-> << >>]

\* Lines 200-207.
SuccessResponse(file_result) ==
    [code |-> 200, status |-> "success", message |-> "Audio processed successfully.",
     details |-> FALSE, audio_files |-> <<file_result>>]

\* gdown.download(url=drive_link, output=audio_path, fuzzy=True) and the
\* checks of lines 130-142: what the download can end in.
ApiDownloadOutcomes == {"ok", "raise", "none", "missing", "empty"}

InitApi ==
    /\ pc = "analyze_audio"
    /\ InitCommon
    /\ is_folder = FALSE
    /\ initial_google_drive_link = NoLink
    /\ listing = << >>
    /\ current_local_audio_path = None
    /\ given_local_path = None
    /\ fs = {}
    /\ store_fault \in StoreFaults
    /\ request \in Requests
    /\ response = NoResponse
    /\ engine_invocations = 0
    /\ suspended = NoSecondRun

EngineUntouched ==
    UNCHANGED <<initial_google_drive_link, is_folder, listing,
                current_processing_link, current_file_identifier,
                current_local_audio_path, files_to_process_queue,
                processed_files_count, total_files_to_process, overall_status,
                error_message, files, metadata, saved, given_local_path, popped,
                finalize_runs, trail, last_run, enqueued, init_outcome,
                store_fault, request, engine_invocations, suspended>>

Respond(r) ==
    /\ response' = r
    /\ pc' = "responded"
    /\ fs' = fs
    /\ EngineUntouched

\* Mutant: the engine is started in folder mode for fileType "folder".
EngineMode_FromFileType(file_type) == file_type = "folder"

\* is_folder=False in the MasterAgentState the route builds (line 154);
\* is_folder_mode of line 110 is not used.
EngineMode(file_type) == FALSE

\* analyze_audio up to master_graph.invoke (lines 75-161).
AnalyzeAudio ==
    /\ pc = "analyze_audio"
    /\ IF ~request.is_json
       THEN Respond(ErrorResponse(400, "Request content type must be application/json"))
       ELSE IF request.data = "null"
       THEN Respond(ErrorResponse(400, "Failed to parse JSON data or no JSON data sent."))
       ELSE IF request.driveLink = NoLink
       THEN Respond(ErrorResponse(400, "driveLink is required in JSON payload"))
       ELSE IF extract_google_drive_file_id(request.driveLink) = None
       THEN Respond(ErrorResponse(400, "Invalid Google Drive link or unable to extract file ID."))
       ELSE IF request.fileType = "null"
       THEN \* file_type.lower() on None raises into the outer except
            Respond(UnexpectedErrorResponse)
       ELSE \E outcome \in ApiDownloadOutcomes :
            IF outcome = "raise"
            THEN Respond(UnexpectedErrorResponse)
            ELSE IF outcome = "none"
            THEN Respond(ErrorResponse(500, "File download failed (gdown returned None)."))
            ELSE IF outcome = "missing"
            THEN Respond(ErrorResponse(500, "File download failed (file not found after download attempt)."))
            ELSE IF outcome = "empty"
            THEN Respond(ErrorResponse(500, "Downloaded file is empty."))
            ELSE \* MasterAgentState(initial_google_drive_link=drive_link,
                 \* current_local_audio_path=audio_path, is_folder=False, ...)
                 /\ fs' = fs \cup {ApiTmpPath}
                 /\ initial_google_drive_link' = request.driveLink
                 /\ current_local_audio_path' = ApiTmpPath
                 /\ given_local_path' = ApiTmpPath
                 /\ is_folder' = EngineMode(request.fileType)
                 /\ engine_invocations' = engine_invocations + 1
                 /\ pc' = "initialize"
                 /\ UNCHANGED <<listing, current_processing_link,
                                current_file_identifier, files_to_process_queue,
                                processed_files_count, total_files_to_process,
                                overall_status, error_message, files, metadata,
                                saved, popped, finalize_runs, trail, last_run,
                                enqueued, init_outcome, store_fault, request,
                                response, suspended>>

\* os.path.exists('master_processing_log.json') after the run (line 178): the
\* file is there once the run's finalize has saved the document.
LogExists(log_data) == log_data.metadata.present

\* log_data.get("audio_files", []) (line 190).
LogAudioFiles(log_data) ==
    IF "audio_files" \in DOMAIN log_data THEN log_data["audio_files"] ELSE << >>

\* get_audio_file_identifier(drive_link, audio_path) (line 186): the call is
\* positional, and binds the link and the path in the order of the helper's
\* parameters.
ApiLookupIdentifiers(drive_link, audio_path) ==
    {get_audio_file_identifier(audio_path, drive_link),
     get_audio_file_identifier(audio_path, NoLink)}

\* The entries of the log that line 190 matches on "file_identifier".
FileResults(log_data, identifier) ==
    LET items == LogAudioFiles(log_data)
        Matches(item) == item.file_identifier = identifier
    IN SelectSeq(items, Matches)

\* analyze_audio from the return of master_graph.invoke (lines 160-207).
AnalyzeAudioReturn ==
    /\ pc \in {"END", "RAISED"}
    /\ request.present
    /\ response = NoResponse
    /\ IF pc = "RAISED"
       THEN /\ response' = GraphErrorResponse
            /\ fs' = fs \ {ApiTmpPath}
       ELSE IF ~LogExists(saved)
       THEN /\ response' = ErrorResponse(500, "Processing log not found.")
            /\ fs' = fs \ {ApiTmpPath}
       ELSE \E current_identifier \in
                  ApiLookupIdentifiers(request.driveLink, ApiTmpPath) :
            LET file_result == FileResults(saved, current_identifier) IN
            /\ response' =
                  IF file_result = << >>
                  THEN ErrorResponse(500, "No processing result found for the file")
                  ELSE SuccessResponse(Head(file_result))
            /\ fs' = fs
    /\ pc' = pc
    /\ EngineUntouched

\* ------------------------------------------------------- specifications
EngineNext ==
    \/ Initialize
    \/ SelectNextFile
    \/ DownloadAudio
    \/ RunAllProcessing
    \/ FinalizeProcessing

Next ==
    \/ EngineNext
    \/ FileVanishes

Spec == Init /\ [][Next]_vars

SpecScenarioD == InitScenarioD /\ [][Next]_vars

\* The graph runner executes the next node whenever there is one.
FairSpec == Spec /\ WF_vars(EngineNext)

\* One POST /api/analyze request, with the engine run it triggers.
NextApi ==
    \/ AnalyzeAudio
    \/ EngineNext
    \/ FileVanishes
    \/ AnalyzeAudioReturn

SpecApi == InitApi /\ [][NextApi]_vars

\* ------------------------------------------------- two overlapping runs
\* The temporary file the front door downloaded for the second request.
SecondPath == "second_tmp"

\* The state of the run whose node is executing.
ThisRun ==
    [pc |-> pc, initial_google_drive_link |-> initial_google_drive_link,
     is_folder |-> is_folder,
     current_processing_link |-> current_processing_link,
     current_file_identifier |-> current_file_identifier,
     current_local_audio_path |-> current_local_audio_path,
     files_to_process_queue |-> files_to_process_queue,
     processed_files_count |-> processed_files_count,
     total_files_to_process |-> total_files_to_process,
     overall_status |-> overall_status, error_message |-> error_message,
     files |-> files, metadata |-> metadata,
     given_local_path |-> given_local_path, popped |-> popped,
     finalize_runs |-> finalize_runs, trail |-> trail, last_run |-> last_run,
     enqueued |-> enqueued, init_outcome |-> init_outcome]

\* Two requests are served at the same time, each by its own
\* build_master_graph() and MasterAgentState (api_server.py lines 148-161):
\* between two nodes of one run, a node of the other run may execute. Each
\* run keeps its own master_json_data; the file on disk and the file
\* system are the same for both.
SwitchRun ==
    /\ suspended.pc # "absent"
    /\ suspended' = ThisRun
    /\ pc' = suspended.pc
    /\ initial_google_drive_link' = suspended.initial_google_drive_link
    /\ is_folder' = suspended.is_folder
    /\ current_processing_link' = suspended.current_processing_link
    /\ current_file_identifier' = suspended.current_file_identifier
    /\ current_local_audio_path' = suspended.current_local_audio_path
    /\ files_to_process_queue' = suspended.files_to_process_queue
    /\ processed_files_count' = suspended.processed_files_count
    /\ total_files_to_process' = suspended.total_files_to_process
    /\ overall_status' = suspended.overall_status
    /\ error_message' = suspended.error_message
    /\ files' = suspended.files
    /\ metadata' = suspended.metadata
    /\ given_local_path' = suspended.given_local_path
    /\ popped' = suspended.popped
    /\ finalize_runs' = suspended.finalize_runs
    /\ trail' = suspended.trail
    /\ last_run' = suspended.last_run
    /\ enqueued' = suspended.enqueued
    /\ init_outcome' = suspended.init_outcome
    /\ UNCHANGED <<saved, fs, listing, store_fault, request, response,
                   engine_invocations>>

\* Two runs of the engine as two overlapping requests start them: single
\* file mode, each with its link and the file downloaded for it, on one
\* results document.
InitTwoRuns ==
    /\ pc = "initialize"
    /\ InitCommon
    /\ is_folder = FALSE
    /\ initial_google_drive_link = FileLink("a")
    /\ listing = << >>
    /\ current_local_audio_path = ApiTmpPath
    /\ given_local_path = ApiTmpPath
    /\ fs = {ApiTmpPath, SecondPath}
    /\ store_fault = "none"
    /\ request = NoRequest
    /\ response = NoResponse
    /\ engine_invocations = 2
    /\ suspended = RunState("initialize", FileLink("b"), SecondPath)

NextTwoRuns ==
    \/ EngineNext
    \/ FileVanishes
    \/ SwitchRun

SpecTwoRuns == InitTwoRuns /\ [][NextTwoRuns]_vars

\* ============================================================== claims
Done == pc = "END"

RecordOf(id) == files[id]
StepsOf(id) == files[id].processing_steps
AudioPresentCount ==
    Cardinality({k \in 1..Len(trail) : trail[k].audio = "present"})

C2_NoSuccessWithoutTranscription ==
    \A id \in DOMAIN files : \A s \in TranscriptDependent :
        StepsOf(id)[s].status = "success"
            => StepsOf(id)["transcription"].status = "success"

ScenarioB ==
    /\ ~is_folder
    /\ initial_google_drive_link # NoLink
    /\ given_local_path = None
    /\ Len(trail) = 1
    /\ trail[1].fetch = "failed"

C5_ScenarioE_FailedInitialization ==
    (Done /\ initial_google_drive_link = NoLink /\ given_local_path = None)
        => overall_status = "failed_initialization"

\* ------------------------------------------------------------------ C6
\* C6: a folder link with an empty listing ends with overallStatus =
\* no_files_found and no FileRecord.
C6_ScenarioC_NoFilesFound ==
    (Done /\ is_folder /\ initial_google_drive_link = FolderLink /\ listing = << >>)
        => (overall_status = "no_files_found" /\ DOMAIN files = {})

\* ------------------------------------------------------------------ C7
\* Scenario D, at the end of the run: three files popped, all with audio,
\* and the transcription runner raised for the second file only.
SecondId == ScenarioIds[2]
ScenarioD ==
    /\ Len(trail) = 3
    /\ \A k \in 1..3 : trail[k].audio = "present"
    /\ \A k \in 1..3 :
          (StepsOf(ScenarioIds[k])["transcription"] = FailedEntry("exception"))
              <=> (k = 2)

\* C7: in Scenario D the second record has transcription failed and the
\* three transcript-dependent stages failed on the missing-transcript
\* check, their runners not called; the run ends completed with
\* processedCount = 3.
C7_ScenarioD ==
    /\ (last_run.identifier = SecondId /\ last_run.outcome["transcription"] = "raise")
          => \A s \in TranscriptDependent :
                /\ last_run.outcome[s] = "not_called"
                /\ StepsOf(SecondId)[s] = FailedEntry("no_transcript")
    /\ (Done /\ ScenarioD)
          => /\ StepsOf(SecondId)["transcription"].status = "failed"
             /\ \A s \in TranscriptDependent :
                   StepsOf(SecondId)[s] = FailedEntry("no_transcript")
             /\ overall_status = "completed"
             /\ processed_files_count = 3

C7_Witness ==
    /\ Done
    /\ ScenarioD
    /\ StepsOf(ScenarioIds[1])["summary"].status = "success"
    /\ StepsOf(ScenarioIds[3])["recommendations"].status = "success"

\* ------------------------------------------------------------------ C8
\* Scenario A: a single link, the fetch succeeds, and no runner misbehaves
\* (every runner that is reached returns success).
ScenarioA ==
    /\ ~is_folder
    /\ initial_google_drive_link # NoLink
    /\ Len(trail) = 1
    /\ trail[1].fetch = "ok"
    /\ trail[1].audio = "present"
    /\ \A s \in Stages \ {"evaluation"} : last_run.outcome[s] = "success"

StagePosition(s) == CHOOSE i \in 1..Len(StageOrder) : StageOrder[i] = s

\* The entry of stage t was written by the latest stage run: its runner was
\* called, or the missing-transcript failure was recorded.
AttemptedInLastRun(t) ==
    \/ last_run.outcome[t] # "not_called"
    \/ StepsOf(last_run.identifier)[t] = FailedEntry("no_transcript")

\* The stage run of the WorkItem popped last has taken place (so last_run
\* and the record of its identifier are as that run left them).
LastRunIsCurrent ==
    /\ Len(trail) > 0
    /\ trail[Len(trail)].audio = "present"
    /\ last_run.identifier = trail[Len(trail)].identifier

\* C9: no exception leaves run_all_processing; when a runner raised in a
\* stage run, the node returned normally, the stage holds a failed entry
\* with the error, and every later stage of the fixed order was attempted
\* for the same file.
C9_RaiseIsCaptured ==
    /\ pc # "RAISED"
    /\ \A s \in Stages :
          (LastRunIsCurrent /\ last_run.outcome[s] = "raise") =>
              /\ StepsOf(last_run.identifier)[s].status = "failed"
              /\ StepsOf(last_run.identifier)[s].error # NoKey
              /\ RecordOf(last_run.identifier).status = "processed"
              /\ \A t \in Stages :
                    StagePosition(t) > StagePosition(s) => AttemptedInLastRun(t)

\* The noise runner raised, and the later summary runner still ran.
C9_Witness ==
    /\ LastRunIsCurrent
    /\ last_run.outcome["noise_analysis"] = "raise"
    /\ last_run.outcome["summary"] = "success"
    /\ last_run.outcome["transcription"] = "success"

\* ----------------------------------------------------------------- C10
\* C10: processedCount <= totalCount in every reachable state.
C10_ProcessedAtMostTotal ==
    processed_files_count <= total_files_to_process

C10_Witness ==
    /\ processed_files_count = 2
    /\ total_files_to_process = 2

\* ----------------------------------------------------------------- C11
\* Whether pop number k is the last / the first pop of its identifier.
LastPopOf(k) ==
    \A j \in (k + 1)..Len(trail) : trail[j].identifier # trail[k].identifier
FirstPopOf(k) ==
    \A j \in 1..(k - 1) : trail[j].identifier # trail[k].identifier

IsPrefix(s, t) == Len(s) <= Len(t) /\ \A i \in 1..Len(s) : s[i] = t[i]

\* The statuses a record is given after it was selected, as the spec has them.
SpecStatusPaths ==
    {<<d, "processing", e>> : d \in {"downloaded", "download_failed"},
                              e \in {"processed", "processing_failed"}}

\* The same, as download_audio and run_all_processing assign them.
CodeStatusPaths ==
    {<<"downloaded", "processing", "processed">>,
     <<"downloaded", "processing_failed">>,
     <<"download_failed", "processing_failed">>}

AfterSelected(k) ==
    IF trail[k].statuses # << >> /\ Head(trail[k].statuses) = "selected"
    THEN Tail(trail[k].statuses) ELSE trail[k].statuses

C13_StatusFromCounts ==
    (Done /\ processed_files_count > 0) =>
        /\ overall_status = "completed" <=>
              processed_files_count = total_files_to_process
        /\ overall_status = "partially_completed" <=>
              processed_files_count < total_files_to_process
        /\ overall_status \in {"completed", "partially_completed"}
        /\ saved.metadata.status = overall_status

\* One of two files was processed, and the run ended with an error pending.
C13_Witness ==
    /\ Done
    /\ processed_files_count = 1
    /\ total_files_to_process = 2
    /\ error_message # None
    /\ overall_status = "partially_completed"

\* ----------------------------------------------------------------- C14
\* Initialize ended in one of its failed_initialization returns.
InitializationError == init_outcome.status = "failed_initialization"

\* C14: after finalize with processedCount = 0, overallStatus is failed
\* exactly when an initialization-level error occurred in the run, and
\* no_files_processed exactly when none occurred.
C14_FailedIffInitializationError ==
    (Done /\ processed_files_count = 0) =>
        /\ overall_status = "failed" <=> InitializationError
        /\ overall_status = "no_files_processed" <=> ~InitializationError

\* ----------------------------------------------------------------- C15
\* Initialize has run in folder mode and got a listing for the folder.
FolderEnumerated ==
    /\ pc # "initialize"
    /\ is_folder
    /\ initial_google_drive_link # NoLink
    /\ extract_google_drive_file_id(initial_google_drive_link) # None

\* C15 as stated: the queue built in folder mode has one WorkItem per
\* listed entry, in the listing's order, and totalCount is the number of
\* listed entries.
C15_OneItemPerListedEntry ==
    FolderEnumerated =>
        /\ Len(enqueued) = Len(listing)
        /\ total_files_to_process = Len(listing)
        /\ \A k \in 1..Len(enqueued) :
              enqueued[k].identifier = listing[k].identifier

Named(f_item) == f_item.identifier # None
NamedEntries == SelectSeq(listing, Named)

\* C15 amended: the queue built in folder mode has one WorkItem per listed
\* entry that has an identifier, in the listing's order, each with the
\* entry's link and identifier; entries without identifier are left out,
\* and totalCount is the number of entries with an identifier.
C15_OneItemPerNamedEntry ==
    FolderEnumerated =>
        /\ Len(enqueued) = Len(NamedEntries)
        /\ total_files_to_process = Len(NamedEntries)
        /\ \A k \in 1..Len(enqueued) :
              /\ enqueued[k].identifier = NamedEntries[k].identifier
              /\ enqueued[k].link = NamedEntries[k].link
              /\ enqueued[k].local_path \in {None, NamedEntries[k].local_path}

\* A listing of two different files, queued in the listing's order.
C15_Witness ==
    /\ FolderEnumerated
    /\ Len(listing) = 2
    /\ listing[1].identifier = "a"
    /\ listing[2].identifier = "b"
    /\ Len(enqueued) = 2
    /\ enqueued[1].identifier = "a"
    /\ pc = "select_next_file"
    /\ popped = 0

\* ----------------------------------------------------------------- C16
\* C16: in single mode with a link that has an extractable id and no
\* local path given, initialize builds a queue of exactly one WorkItem
\* with that link, the identifier resolved from it and no local path,
\* and totalCount is 1.
C16_SingleLinkOneItem ==
    (/\ pc # "initialize"
     /\ ~is_folder
     /\ initial_google_drive_link # NoLink
     /\ extract_google_drive_file_id(initial_google_drive_link) # None
     /\ given_local_path = None) =>
        /\ enqueued =
              <<[link |-> initial_google_drive_link,
                 identifier |-> initial_google_drive_link.id,
                 local_path |-> None]>>
        /\ total_files_to_process = 1
        /\ init_outcome = [status |-> "initialized", error |-> None]

\* Initialize has just queued the single link.
C16_Witness ==
    /\ pc = "select_next_file"
    /\ popped = 0
    /\ ~is_folder
    /\ initial_google_drive_link = UcLink("b")
    /\ given_local_path = None
    /\ Len(files_to_process_queue) = 1

\* ----------------------------------------------------------------- C17
PoppedIds == [k \in 1..Len(trail) |-> trail[k].identifier]
IdsOf(queue) == [k \in 1..Len(queue) |-> queue[k].identifier]

\* The WorkItems popped so far are a prefix of the queue as built, and the
\* rest is still queued in the same order.
FifoOrder ==
    pc # "initialize" =>
        PoppedIds \o IdsOf(files_to_process_queue) = IdsOf(enqueued)

\* Only the WorkItem popped last can be in flight: every earlier one has
\* had its stage run, and so has the last one when the next is selected.
OneInFlight ==
    /\ \A k \in 1..(Len(trail) - 1) : trail[k].audio # "unknown"
    /\ (pc \in {"select_next_file", "finalize", "END"}) =>
          \A k \in 1..Len(trail) : trail[k].audio # "unknown"
    /\ (pc \in {"download_audio", "run_all_processing"}) =>
          /\ Len(trail) > 0
          /\ trail[Len(trail)].audio = "unknown"
          /\ trail[Len(trail)].identifier = current_file_identifier

\* A step that writes a record writes the record of the current file only.
WritesCurrentOnly ==
    \A id \in DOMAIN files' :
        (id \notin DOMAIN files \/ files'[id] # files[id]) =>
            id = current_file_identifier'

\* C17: files are selected in the order they were enqueued; one file's
\* download and stage run complete before the next file is selected, so
\* at most one file is in flight; and record writes for different
\* identifiers never interleave.
C17_FifoOneAtATime ==
    /\ [](FifoOrder /\ OneInFlight)
    /\ [][WritesCurrentOnly]_vars

\* Two different files were selected in queue order, the first processed
\* fully before the second was selected.
C17_Witness ==
    /\ Len(enqueued) = 2
    /\ PoppedIds = <<"a", "b">>
    /\ trail[1].audio = "present"
    /\ pc = "download_audio"
    /\ RecordOf("a").status = "processed"
    /\ RecordOf("b").status = "selected"

\* ----------------------------------------------------------------- C18
\* C18: every stage entry stored for a file has status success or failed,
\* and a failed entry carries an error.
C18_StoredStatusSuccessOrFailed ==
    \A id \in DOMAIN files : \A s \in Stages :
        StepsOf(id)[s] # NoEntry =>
            /\ StepsOf(id)[s].status \in {"success", "failed"}
            /\ StepsOf(id)[s].status = "failed" => StepsOf(id)[s].error # NoKey

\* ----------------------------------------------------------------- C19
\* The request carried a link with an extractable id, the download gave a
\* file, and the engine run ended normally with the file's record in the
\* persisted document.
EngineRunPersisted ==
    /\ request.present
    /\ engine_invocations = 1
    /\ pc = "END"
    /\ request.driveLink.id \in DOMAIN saved.files

\* C19: such a request is answered 200 with status success and
\* analysis.audio_files holding the file's record.
C19_SuccessCarriesRecord ==
    (EngineRunPersisted /\ response # NoResponse) =>
        /\ response.code = 200
        /\ response.status = "success"
        /\ response.audio_files = <<saved.files[request.driveLink.id]>>

\* ----------------------------------------------------------------- C20
NoUsableLink ==
    request.driveLink = NoLink
        \/ extract_google_drive_file_id(request.driveLink) = None

\* C20: when master_graph.invoke raised, the response is 500 with status
\* error, a message and details, never 200; and a request without
\* driveLink, or with a link that has no extractable id, is answered 400
\* and the engine is never invoked for it.
C20_RaiseIs500_BadLinkIs400 ==
    /\ (request.present /\ pc = "RAISED" /\ response # NoResponse) =>
          /\ response.code = 500
          /\ response.status = "error"
          /\ response.message # None
          /\ response.details
    /\ (request.present /\ NoUsableLink) =>
          /\ engine_invocations = 0
          /\ pc \in {"analyze_audio", "responded"}
          /\ response # NoResponse => response.code = 400

\* The engine was invoked, its run raised, and the request was answered.
C20_Witness ==
    /\ request.present
    /\ engine_invocations = 1
    /\ pc = "RAISED"
    /\ response.code = 500
    /\ response.details

\* ----------------------------------------------------------------- C21
\* C21: when initialize ended in failed_initialization, the queue is empty
\* and totalCount is 0, and for the rest of the run no WorkItem is popped,
\* no record is created or modified (in memory or in the persisted
\* document), the fetch is never invoked and no stage runner is invoked.
C21_FailedInitializationTouchesNothing ==
    InitializationError =>
        /\ enqueued = << >>
        /\ files_to_process_queue = << >>
        /\ total_files_to_process = 0
        /\ popped = 0
        /\ trail = NoTrail
        /\ DOMAIN files = {}
        /\ DOMAIN saved.files = {}
        /\ last_run = NoRun
        /\ processed_files_count = 0
        /\ pc \in {"select_next_file", "finalize", "END"}

\* A folder run whose link has no extractable id has ended.
C21_Witness ==
    /\ Done
    /\ InitializationError
    /\ is_folder
    /\ initial_google_drive_link = BadLink

\* ----------------------------------------------------------------- C22
\* The download node runs for a WorkItem whose local path exists.
DownloadWithLocalCopy ==
    /\ pc = "download_audio"
    /\ pc' = "run_all_processing"
    /\ exists(current_local_audio_path)

\* C22: for each popped WorkItem the fetch is invoked at most once, and
\* not at all when the download node finds the item's local path existing;
\* the record is then marked downloaded with that path.
C22_FetchAtMostOnce ==
    /\ [](\A k \in 1..Len(trail) :
             /\ trail[k].fetch_calls <= 1
             /\ trail[k].fetch \in {"none", "skipped", "no_link"}
                   => trail[k].fetch_calls = 0)
    /\ [][DownloadWithLocalCopy =>
             /\ trail'[Len(trail')].fetch = "skipped"
             /\ trail'[Len(trail')].fetch_calls = 0
             /\ files'[current_file_identifier].status = "downloaded"
             /\ files'[current_file_identifier].local_path =
                   current_local_audio_path
             /\ current_local_audio_path' = current_local_audio_path]_vars

\* A pre-downloaded file was used without fetching, and the fetch of the
\* next file failed after one call.
C22_Witness ==
    /\ Done
    /\ Len(trail) = 2
    /\ trail[1].fetch = "skipped"
    /\ trail[1].fetch_calls = 0
    /\ trail[2].fetch = "failed"
    /\ trail[2].fetch_calls = 1

\* ----------------------------------------------------------------- C23
\* run_all_processing runs for a file whose local audio exists.
RunStagesStep ==
    /\ pc = "run_all_processing"
    /\ pc' # pc
    /\ exists(current_local_audio_path)

\* C23: a stage run that executes the runners ends, whatever each stage
\* did, with the record processed and completed_at set, with
\* processedCount advanced by exactly one, and with an entry for each of
\* the five stages.
C23_RunStagesAlwaysProcessed ==
    [][RunStagesStep =>
          /\ pc' # "RAISED"
          /\ files'[current_file_identifier].status = "processed"
          /\ files'[current_file_identifier].completed_at
          /\ processed_files_count' = processed_files_count + 1
          /\ \A st \in Stages :
                files'[current_file_identifier].processing_steps[st] # NoEntry]_vars

\* A stage run in which two runners raised and one returned an error
\* result has ended with the record processed.
C23_Witness ==
    /\ LastRunIsCurrent
    /\ last_run.outcome["transcription"] = "success"
    /\ last_run.outcome["noise_analysis"] = "raise"
    /\ last_run.outcome["summary"] = "error_result"
    /\ last_run.outcome["recommendations"] = "raise"
    /\ RecordOf(last_run.identifier).status = "processed"
    /\ processed_files_count = 1

\* ----------------------------------------------------------------- C24
\* C24: in a stage run the recommendations runner is called exactly when
\* the stored transcription entry passes the transcript check; what is
\* stored for recommendations is then what that runner did, whatever the
\* evaluation stage did, and the missing-transcript failure otherwise.
C24_RecommendationsIndependentOfEvaluation ==
    LastRunIsCurrent =>
        LET steps == StepsOf(last_run.identifier)
            called == last_run.outcome["recommendations"]
        IN /\ called # "not_called" <=> TranscriptValid(steps["transcription"])
           /\ called = "success" => steps["recommendations"] = SuccessResult
           /\ called = "error_result" => steps["recommendations"] = ErrorResult
           /\ called = "raise" => steps["recommendations"] = FailedEntry("exception")
           /\ called = "not_called" =>
                 steps["recommendations"] = FailedEntry("no_transcript")

\* The evaluation stage failed and the recommendations succeeded.
C24_Witness ==
    /\ LastRunIsCurrent
    /\ StepsOf(last_run.identifier)["evaluation"].status = "failed"
    /\ last_run.outcome["recommendations"] = "success"
    /\ StepsOf(last_run.identifier)["recommendations"] = SuccessResult

\* ----------------------------------------------------------------- C25
AfterTranscription == {"evaluation", "summary", "recommendations"}

\* C25: in every stage run the noise-analysis runner is called and its
\* outcome stored, whatever transcription did; and evaluation, summary and
\* recommendations come after transcription in the order of the steps, so
\* whenever one of them was attempted the transcription entry is there.
C25_NoiseAlwaysRuns ==
    LastRunIsCurrent =>
        LET steps == StepsOf(last_run.identifier) IN
        /\ last_run.outcome["noise_analysis"] # "not_called"
        /\ last_run.outcome["transcription"] # "not_called"
        /\ steps["noise_analysis"] # NoEntry
        /\ steps["noise_analysis"].error # "no_transcript"
        /\ \A t \in AfterTranscription :
              /\ StagePosition("transcription") < StagePosition(t)
              /\ AttemptedInLastRun(t) => steps["transcription"] # NoEntry

\* Transcription raised and the noise analysis still ran.
C25_Witness ==
    /\ LastRunIsCurrent
    /\ last_run.outcome["transcription"] = "raise"
    /\ last_run.outcome["noise_analysis"] = "success"
    /\ StepsOf(last_run.identifier)["noise_analysis"] = SuccessResult

DistinctIdentifiers ==
    \A j, k \in 1..Len(enqueued) :
        enqueued[j].identifier = enqueued[k].identifier => j = k

\* C27: in a run whose WorkItems have pairwise distinct identifiers, a
\* record persisted as processed is in every document persisted later,
\* unchanged, and so is the record in memory.
C27_ProcessedRecordsKept ==
    [][DistinctIdentifiers =>
          \A id \in DOMAIN saved.files :
              saved.files[id].status = "processed" =>
                  /\ id \in DOMAIN saved'.files
                  /\ saved'.files[id] = saved.files[id]
                  /\ id \in DOMAIN files'
                  /\ files'[id] = saved.files[id]]_vars

\* The first of two files was processed, the second failed, and the run
\* has ended with the first record still persisted as processed.
C27_Witness ==
    /\ Done
    /\ PoppedIds = <<"a", "b">>
    /\ trail[2].audio = "missing"
    /\ saved.files["a"].status = "processed"
    /\ saved.files["b"].status = "processing_failed"
    /\ saved.metadata.present

\* ----------------------------------------------------------------- C28
\* select_next_file pops a WorkItem.
SelectStep ==
    /\ pc = "select_next_file"
    /\ files_to_process_queue # << >>

\* C28: selecting a WorkItem whose identifier has no record creates one
\* with status selected, an empty stage map and the item's link, changes
\* no other record and saves; selecting an identifier that has a record
\* changes neither the document in memory nor the persisted one.
C28_SelectUpserts ==
    [][SelectStep =>
          LET item == Head(files_to_process_queue)
              id == item.identifier
          IN IF id \in DOMAIN files
             THEN files' = files /\ saved' = saved
             ELSE /\ DOMAIN files' = DOMAIN files \cup {id}
                  /\ files'[id].identifier = id
                  /\ files'[id].status = "selected"
                  /\ files'[id].link = item.link
                  /\ files'[id].processing_steps = EmptySteps
                  /\ \A other \in DOMAIN files : files'[other] = files[other]
                  /\ saved'.files = files']_vars

\* An identifier with a processed record has been selected again.
C28_Witness ==
    /\ pc = "download_audio"
    /\ Len(trail) = 2
    /\ trail[1].identifier = trail[2].identifier
    /\ trail[2].statuses = << >>
    /\ RecordOf(trail[2].identifier).status = "processed"

\* ----------------------------------------------------------------- C29
\* C29: after an identifier with a record was processed again, its one
\* record reflects the second processing only: a second processing that
\* found no audio leaves no stage result and no completed_at of the first,
\* and a second processing that ran the stages leaves no error of the first.
C29_SecondProcessingReplacesFirst ==
    \A k \in 1..Len(trail) :
        (~FirstPopOf(k) /\ LastPopOf(k) /\ trail[k].audio # "unknown") =>
            LET record == RecordOf(trail[k].identifier) IN
            /\ trail[k].audio = "missing" =>
                  /\ record.status = "processing_failed"
                  /\ record.processing_steps = EmptySteps
                  /\ ~record.completed_at
            /\ trail[k].audio = "present" =>
                  /\ record.status = "processed"
                  /\ record.error = None

\* ----------------------------------------------------------------- C30
\* C30: the metadata persisted by finalize holds processedCount as
\* total_files_processed, totalCount as total_files_attempted and the final
\* overallStatus as status, with an error exactly when the status is
\* failed; and finalize changes no record.
C30_FinalMetadata ==
    /\ [](Done =>
             /\ saved.metadata.present
             /\ saved.metadata.total_files_processed = processed_files_count
             /\ saved.metadata.total_files_attempted = total_files_to_process
             /\ saved.metadata.status = overall_status
             /\ saved.metadata.error # None <=> saved.metadata.status = "failed")
    /\ [][(pc = "finalize" /\ pc' # pc) =>
             /\ files' = files
             /\ saved'.files = saved.files]_vars

\* A run of two files has ended partially completed, with the last file's
\* error still pending.
C30_Witness ==
    /\ Done
    /\ overall_status = "partially_completed"
    /\ error_message # None
    /\ saved.metadata.total_files_processed = 1
    /\ saved.metadata.total_files_attempted = 2
    /\ saved.metadata.error = None

\* ----------------------------------------------------------------- C32
FinalStatuses == {"completed", "partially_completed", "failed", "no_files_processed"}

\* C32: at the end of every run overallStatus is completed,
\* partially_completed, failed or no_files_processed; it is failed exactly
\* when totalCount > 0 and processedCount = 0, and no_files_processed
\* exactly when totalCount = 0; so the status initialize had set
\* (initialized, failed_initialization, no_files_found) is never the final
\* one, and an initialization error is never reported as failed.
C32_FinalStatusOverwritesInitialize ==
    Done =>
        /\ overall_status \in FinalStatuses
        /\ overall_status = "failed" <=>
              (total_files_to_process > 0 /\ processed_files_count = 0)
        /\ overall_status = "no_files_processed" <=> total_files_to_process = 0
        /\ init_outcome.status \in
              {"initialized", "failed_initialization", "no_files_found"}
        /\ overall_status # init_outcome.status
        /\ saved.metadata.status = overall_status

\* A run whose initialize failed with an error has ended as
\* no_files_processed.
C32_Witness ==
    /\ Done
    /\ init_outcome.status = "failed_initialization"
    /\ init_outcome.error # None
    /\ overall_status = "no_files_processed"
    /\ error_message = None

\* ----------------------------------------------------------------- C33
\* run_all_processing runs for a file whose local audio is not there.
RunStagesWithoutAudio ==
    /\ pc = "run_all_processing"
    /\ pc' # pc
    /\ ~exists(current_local_audio_path)

\* C33: after finalize processedCount is the number of popped WorkItems
\* whose local audio existed when run_all_processing started; for a popped
\* item without local audio the node sets processing_failed, writes no
\* stage entry and no completed_at, calls no runner and does not count it.
C33_OnlyItemsWithAudioCounted ==
    /\ [](Done => processed_files_count =
                     Cardinality({k \in 1..Len(trail) : trail[k].audio = "present"}))
    /\ [](\A k \in 1..Len(trail) :
             (trail[k].audio = "missing" /\ FirstPopOf(k) /\ LastPopOf(k)) =>
                 /\ RecordOf(trail[k].identifier).status = "processing_failed"
                 /\ RecordOf(trail[k].identifier).processing_steps = EmptySteps
                 /\ ~RecordOf(trail[k].identifier).completed_at)
    /\ [][RunStagesWithoutAudio =>
             /\ files'[current_file_identifier].status = "processing_failed"
             /\ files'[current_file_identifier].processing_steps =
                   files[current_file_identifier].processing_steps
             /\ files'[current_file_identifier].completed_at =
                   files[current_file_identifier].completed_at
             /\ processed_files_count' = processed_files_count
             /\ last_run' = last_run
             /\ trail'[Len(trail')].audio = "missing"]_vars

\* The run has ended with one file counted and one, whose fetched file
\* had vanished, not counted.
C33_Witness ==
    /\ Done
    /\ Len(trail) = 2
    /\ trail[1].fetch = "ok"
    /\ trail[1].audio = "missing"
    /\ trail[2].audio = "present"
    /\ processed_files_count = 1
    /\ ~RecordOf(trail[1].identifier).completed_at

\* ----------------------------------------------------------------- C34
\* C34: every queued WorkItem has an identifier; the items popped so far
\* plus the queue length is totalCount in every state after initialize (and
\* 0 = 0 before); at the end every enqueued item has been popped exactly
\* once; select_next_file routes to download_audio exactly when it popped
\* an item; and the queue is empty whenever finalize runs.
C34_QueueAccounting ==
    /\ [](/\ \A k \in 1..Len(files_to_process_queue) :
                files_to_process_queue[k].identifier # None
          /\ popped + Len(files_to_process_queue) = total_files_to_process
          /\ total_files_to_process = Len(enqueued)
          /\ pc \in {"finalize", "END"} => files_to_process_queue = << >>
          /\ Done => (popped = Len(enqueued) /\ PoppedIds = IdsOf(enqueued)))
    /\ [][pc = "select_next_file" =>
             /\ pc' = "download_audio" <=> popped' = popped + 1
             /\ pc' = "finalize" <=> popped' = popped
             /\ pc' \in {"download_audio", "finalize"}]_vars

\* Both files of a folder have been popped and the run has ended.
C34_Witness ==
    /\ Done
    /\ Len(enqueued) = 2
    /\ popped = 2
    /\ total_files_to_process = 2
    /\ PoppedIds = <<"a", "b">>

\* ----------------------------------------------------------------- C35
\* analyze_audio hands the request to the engine.
InvokeStep == pc = "analyze_audio" /\ pc' = "initialize"

\* A node of the engine run of a request runs.
ApiNodeStep(node) == pc = node /\ pc' # pc /\ request.present

\* The statement of C35 as written: in an API run the engine is invoked at
\* most once in single-file mode, the queue holds one WorkItem carrying
\* the downloaded file's path, and the download node never fetches.
C35_ApiRunNeverFetches ==
    /\ engine_invocations <= 1
    /\ engine_invocations = 1 => ~is_folder
    /\ (request.present /\ pc \notin {"analyze_audio", "initialize", "responded"}) =>
          /\ Len(enqueued) = 1
          /\ enqueued[1].local_path = ApiTmpPath
    /\ request.present =>
          \A k \in 1..Len(trail) : trail[k].fetch \in {"none", "skipped"}

\* C35 (amended): each POST /api/analyze invokes the engine at most once,
\* always with is_folder false (also for fileType "folder"), and only with
\* a downloaded file in place; the run enqueues exactly one WorkItem; the
\* item carries the downloaded file's path if the file is still there
\* when initialize looks, and none otherwise; the download node marks the
\* item downloaded without a fetch if the item's path exists when it looks,
\* and otherwise fetches the link.
C35_ApiRunUsesDownloadedFileWhileItExists ==
    /\ [](/\ engine_invocations <= 1
          /\ engine_invocations = 1 => (~is_folder /\ given_local_path = ApiTmpPath)
          /\ (request.present /\ pc \notin {"analyze_audio", "initialize", "responded"}) =>
                (Len(enqueued) = 1 /\ total_files_to_process = 1))
    /\ [][InvokeStep =>
             /\ engine_invocations = 0
             /\ engine_invocations' = 1
             /\ ApiTmpPath \in fs'
             /\ current_local_audio_path' = ApiTmpPath
             /\ ~is_folder']_vars
    /\ [][engine_invocations' # engine_invocations => InvokeStep]_vars
    /\ [][ApiNodeStep("initialize") =>
             /\ Len(files_to_process_queue') = 1
             /\ files_to_process_queue'[1].link = request.driveLink
             /\ files_to_process_queue'[1].local_path =
                   IF exists(ApiTmpPath) THEN ApiTmpPath ELSE None]_vars
    /\ [][ApiNodeStep("download_audio") =>
             IF exists(current_local_audio_path)
             THEN /\ current_local_audio_path = ApiTmpPath
                  /\ trail'[Len(trail')].fetch = "skipped"
                  /\ trail'[Len(trail')].fetch_calls = 0
                  /\ files'[current_file_identifier].status = "downloaded"
                  /\ files'[current_file_identifier].local_path = ApiTmpPath
             ELSE /\ trail'[Len(trail')].fetch \in {"ok", "failed"}
                  /\ trail'[Len(trail')].fetch_calls = 1]_vars

\* A request with fileType "folder" has been run in single-file mode on the
\* downloaded file, without a fetch, and answered.
C35_Witness ==
    /\ request.fileType = "folder"
    /\ engine_invocations = 1
    /\ ~is_folder
    /\ Done
    /\ enqueued # << >>
    /\ enqueued[1].local_path = ApiTmpPath
    /\ trail[1].fetch = "skipped"
    /\ response # NoResponse

\* ----------------------------------------------------------------- C31
BothRunsFinalized == pc = "END" /\ suspended.pc = "END"

\* The identifiers the two runs created records for.
RecordedByEitherRun == DOMAIN files \cup DOMAIN suspended.files

\* C31: when two engine runs execute concurrently on the one results
\* document, their record updates are serialized: no save removes a record
\* from the persisted document, and after both runs have finalized the
\* persisted document holds the records written by both.
C31_ConcurrentRunsKeepBothRecords ==
    /\ [](BothRunsFinalized => RecordedByEitherRun \subseteq DOMAIN saved.files)
    /\ [][DOMAIN saved.files \subseteq DOMAIN saved'.files]_vars

====
